---- MODULE Spec2Model ----
(***************************************************************************)
(* The event value model of vector and its path-addressable mutation       *)
(* contract: LogEvent (src/event/log_event.rs), the log and metric         *)
(* vrl::Target adapters (src/event/vrl_target/log.rs, metric.rs) and the   *)
(* VrlTarget dispatcher with its fan-out (src/event/vrl_target/mod.rs),    *)
(* and the gRPC source and sink built around it                            *)
(* (src/sources/vector_grpc.rs, src/sinks/vector_grpc.rs).                 *)
(***************************************************************************)
EXTENDS Integers, Sequences, FiniteSets, TLC

VARIABLES
    phase,      \* "event": an owned Event; "target": wrapped by VrlTarget::new; "done": into_events ran;
                \* "aborted": a call panicked
    event,      \* the Event handed to VrlTarget::new (mutated by the LogEvent API while phase = "event")
    target,     \* the VrlTarget
    out,        \* the Events produced by into_events
    last,       \* the last call: its name, inputs and outcome
    last2,      \* the call before it
    prev,       \* the event/target as it was before the last call
    steps,      \* number of calls made so far
    panicked,   \* an unreachable!/expect branch was hit
    healthy,    \* gRPC source: Service.healthy, an Arc<AtomicBool>
    pipeline,   \* gRPC source: Service.pipeline, [queue, closed]
    requests,   \* gRPC source: each push_events request, [pc, message, response, sent]
    setters,    \* gRPC source: each thread that calls set_healthy, [pc, h]
    health,     \* gRPC source: the last health_check response
    batch,      \* gRPC sink: the Vec<EventRequest> given to Service::call
    pushes,     \* gRPC sink: each request of the batch, [issued, result]
    outcome,    \* gRPC sink: what the future returned by call resolved to
    error,      \* gRPC sink: the last Error the sink produced
    retriable   \* gRPC sink: the last is_retriable_error(error)

eventvars == <<phase, event, target, out, last, last2, prev, steps, panicked>>
sourcevars == <<healthy, pipeline, requests, setters, health>>
sinkvars == <<batch, pushes, outcome, error, retriable>>
grpcvars == <<healthy, pipeline, requests, setters, health,
              batch, pushes, outcome, error, retriable>>

vars == <<phase, event, target, out, last, last2, prev, steps, panicked,
          healthy, pipeline, requests, setters, health,
          batch, pushes, outcome, error, retriable>>

----------------------------------------------------------------------------
(* Bounds of the model *)

\* calls made on one event/target before into_events
MaxOps == 2

\* push_events requests the gRPC source receives
MaxRequests == 2

\* events the source's pipeline holds before a send has to wait
PipelineCapacity == 1

\* threads that call Service::set_healthy
MaxSetters == 1

\* requests in one batch of the gRPC sink
MaxBatch == 3

----------------------------------------------------------------------------
(* Value: Null, Boolean, Integer, Timestamp, Bytes, Array, Map *)

Null == [kind |-> "null", v |-> 0]
Bool(b) == [kind |-> "boolean", v |-> b]
Integer(i) == [kind |-> "integer", v |-> i]
Ts(t) == [kind |-> "timestamp", v |-> t]
Bytes(s) == [kind |-> "bytes", v |-> s]
Array(s) == [kind |-> "array", v |-> s]
Map(f) == [kind |-> "map", v |-> f]

\* BTreeMap::new()
EmptyMap == [k \in {} |-> Null]

\* Option::None; Some(x) is x itself
None == [kind |-> "none", v |-> 0]

\* Result<_, String>
Ok(x) == [ok |-> TRUE, val |-> x, err |-> ""]
Err(e) == [ok |-> FALSE, val |-> None, err |-> e]

\* panic!, unreachable!, expect on None: the call does not return
Aborted == [kind |-> "panic", v |-> 0]
Panic(msg) == [ok |-> FALSE, val |-> Aborted, err |-> msg]

\* BTreeMap::remove
MapWithout(f, k) == [x \in DOMAIN f \ {k} |-> f[x]]

\* BTreeMap::insert
MapWith(f, k, x) == [y \in DOMAIN f \cup {k} |-> IF y = k THEN x ELSE f[y]]

\* BTreeMap iteration: the entries in the lexicographic order of their keys.
\* KeyOrder lists every key the model uses, in that order.
KeyOrder == <<"a", "a.b", "b", "c", "d", "message", "t1", "t2", "timestamp">>

RECURSIVE map_iter(_, _)
map_iter(f, order) ==
    IF order = << >> THEN << >>
    ELSE IF Head(order) \in DOMAIN f
         THEN << <<Head(order), f[Head(order)]>> >> \o map_iter(f, Tail(order))
         ELSE map_iter(f, Tail(order))

\* Value::from(vrl::Value) and vrl::Value::from(Value): the record model has one
\* Value type; the conversion rebuilds the tree kind by kind.
RECURSIVE ValueFrom(_)
ValueFrom(x) ==
    CASE x.kind = "map" -> Map([k \in DOMAIN x.v |-> ValueFrom(x.v[k])])
      [] x.kind = "array" -> Array([i \in DOMAIN x.v |-> ValueFrom(x.v[i])])
      [] OTHER -> [kind |-> x.kind, v |-> x.v]

----------------------------------------------------------------------------
(* Paths: a sequence of field segments; the empty sequence is the root *)

Field(n) == [kind |-> "field", v |-> n]
Index(i) == [kind |-> "index", v |-> i]
RootPath == << >>
is_root(path) == path = << >>
P1(a) == <<Field(a)>>
P2(a, b) == <<Field(a), Field(b)>>
P3(a, b, c) == <<Field(a), Field(b), Field(c)>>

\* Display of a path: its segments joined by dots
RECURSIVE path_to_string(_)
path_to_string(path) ==
    IF Len(path) = 1 THEN Head(path).v
    ELSE Head(path).v \o "." \o path_to_string(Tail(path))

\* log_schema().message_key() and timestamp_key(), at their defaults
message_key == "message"
timestamp_key == "timestamp"

\* The key strings callers pass to the LogEvent API, and how util::log splits
\* each at its dots into path segments (PathIter).
PathIter(key) ==
    CASE key = "a.b" -> P2("a", "b")
      [] key = "a.d" -> P2("a", "d")
      [] key = "a.b.c" -> P3("a", "b", "c")
      [] OTHER -> P1(key)

----------------------------------------------------------------------------
(* util::log::{get, insert, remove} over a Value tree *)

RECURSIVE ValGet(_, _)
ValGet(val, path) ==
    IF path = << >> THEN val
    ELSE IF val.kind = "map" /\ Head(path).v \in DOMAIN val.v
         THEN ValGet(val.v[Head(path).v], Tail(path))
         ELSE None

\* Missing segments are created as maps; a non-map value met before the end of
\* the path is replaced by a fresh map.
RECURSIVE ValInsert(_, _, _)
ValInsert(val, path, new) ==
    IF path = << >> THEN new
    ELSE LET base == IF val.kind = "map" THEN val.v ELSE EmptyMap
             k == Head(path).v
             child == IF k \in DOMAIN base THEN base[k] ELSE Null
         IN Map(MapWith(base, k, ValInsert(child, Tail(path), new)))

\* Returns the tree after the removal and the removed value (None when the
\* path addresses nothing). With prune, a map emptied by the removal is
\* removed from its parent.
RECURSIVE ValRemove(_, _, _)
ValRemove(val, path, prune) ==
    LET k == Head(path).v IN
    IF val.kind # "map" \/ k \notin DOMAIN val.v
    THEN [val |-> val, removed |-> None]
    ELSE IF Len(path) = 1
         THEN [val |-> Map(MapWithout(val.v, k)), removed |-> val.v[k]]
         ELSE LET r == ValRemove(val.v[k], Tail(path), prune) IN
              IF r.removed = None
              THEN [val |-> val, removed |-> None]
              ELSE IF prune /\ r.val = Map(EmptyMap)
                   THEN [val |-> Map(MapWithout(val.v, k)), removed |-> r.removed]
                   ELSE [val |-> Map(MapWith(val.v, k, r.val)), removed |-> r.removed]

----------------------------------------------------------------------------
(* EventMetadata: opaque per-record context, a set of provenance ids *)

MetadataIds == {1, 2}
DefaultMetadata == {}
MetadataMerge(mine, other) == mine \cup other

----------------------------------------------------------------------------
(* Value::merge *)

\* Mutant: two byte strings are joined incoming first.
ValueMerge_swapped(current, incoming) ==
    IF current.kind = "bytes" /\ incoming.kind = "bytes"
    THEN Bytes(incoming.v \o current.v)
    ELSE incoming

ValueMerge(current, incoming) ==
    IF current.kind = "bytes" /\ incoming.kind = "bytes"
    THEN Bytes(current.v \o incoming.v)
    ELSE incoming

----------------------------------------------------------------------------
(* LogEvent: {fields: Value, metadata: EventMetadata} *)

LogEvent(fields, metadata) == [variant |-> "Log", fields |-> fields, metadata |-> metadata]

LogEvent_default == LogEvent(Map(EmptyMap), DefaultMetadata)

new_with_metadata(metadata) == LogEvent(Map(EmptyMap), metadata)

\* as_map / as_map_mut reach unreachable!() unless fields is the Map variant
as_map_unreachable(log) == log.fields.kind # "map"

as_map(log) == log.fields.v

LogEvent_get(log, key) == ValGet(Map(as_map(log)), PathIter(key))

get_flat(log, key) == IF key \in DOMAIN as_map(log) THEN as_map(log)[key] ELSE None

contains(log, key) == LogEvent_get(log, key) # None

LogEvent_insert(log, key, value) ==
    [log EXCEPT !.fields = ValInsert(Map(as_map(log)), PathIter(key), value)]

\* Mutant: the path is used as one flat key instead of being walked.
insert_path_flat(log, path, value) ==
    [log EXCEPT !.fields = Map(MapWith(as_map(log), path_to_string(path), value))]

insert_path(log, path, value) ==
    [log EXCEPT !.fields = ValInsert(Map(as_map(log)), path, value)]

insert_flat(log, key, value) ==
    [log EXCEPT !.fields = Map(MapWith(as_map(log), key, value))]

try_insert(log, key, value) ==
    IF ~contains(log, key) THEN LogEvent_insert(log, key, value) ELSE log

\* [log, removed]
remove_prune(log, key, prune) ==
    LET r == ValRemove(Map(as_map(log)), PathIter(key), prune)
    IN [log |-> [log EXCEPT !.fields = r.val], removed |-> r.removed]

LogEvent_remove(log, key) == remove_prune(log, key, FALSE)

\* for field in fields { incoming.remove(field) ...; self.get_mut(field) ... }
RECURSIVE merge_fields(_, _, _)
merge_fields(log, incoming, fields) ==
    IF fields = << >> THEN log
    ELSE LET field == Head(fields)
             taken == LogEvent_remove(incoming, field)
         IN IF taken.removed = None
            THEN merge_fields(log, incoming, Tail(fields))
            ELSE LET current_val == LogEvent_get(log, field)
                     merged == IF current_val = None
                               THEN LogEvent_insert(log, field, taken.removed)
                               ELSE LogEvent_insert(log, field,
                                        ValueMerge(current_val, taken.removed))
                 IN merge_fields(merged, taken.log, Tail(fields))

\* Mutant: every field of incoming is merged, whatever the list of fields says.
LogEvent_merge_all(log, incoming, fields) ==
    LET all == map_iter(as_map(incoming), KeyOrder)
    IN [merge_fields(log, incoming, [i \in DOMAIN all |-> all[i][1]]) EXCEPT
           !.metadata = MetadataMerge(log.metadata, incoming.metadata)]

LogEvent_merge(log, incoming, fields) ==
    [merge_fields(log, incoming, fields) EXCEPT
        !.metadata = MetadataMerge(log.metadata, incoming.metadata)]

\* for (k, v) in iter { self.insert(k.as_ref(), v.into()) }
RECURSIVE extend(_, _)
extend(log, iter) ==
    IF iter = << >> THEN log
    ELSE extend(LogEvent_insert(log, Head(iter)[1], Head(iter)[2]), Tail(iter))

\* The loop of entry: `key` is the key of current_pointer in `map`, `rest` the
\* segments not yet walked, `at` the keys walked so far. Ok holds the Entry:
\* occupied or vacant, and the keys that lead to it.
RECURSIVE entry_walk(_, _, _, _)
entry_walk(map, key, rest, at) ==
    IF rest = << >>
    THEN Ok([kind |-> IF key \in DOMAIN map THEN "occupied" ELSE "vacant", v |-> at])
    ELSE LET segment == Head(rest) IN
         CASE segment.kind = "field" /\ key \in DOMAIN map ->
                 IF map[key].kind = "map"
                 THEN entry_walk(map[key].v, segment.v, Tail(rest), Append(at, segment.v))
                 ELSE Err("Looking up field on a non-map value")
           [] segment.kind = "field" ->
                 Err("Tried to step into '" \o segment.v \o "' of '" \o key
                         \o "', but it did not exist.")
           [] OTHER -> Err("The entry API cannot yet descend into array indices.")

\* Mutant: the Entry handed out is always a vacant one.
entry_always_vacant(log, lookup) ==
    IF lookup # << >> /\ Head(lookup).kind = "field"
    THEN LET r == entry_walk(as_map(log), Head(lookup).v, Tail(lookup), <<Head(lookup).v>>)
         IN IF r.ok THEN Ok([r.val EXCEPT !.kind = "vacant"]) ELSE r
    ELSE Panic("It is an invariant to have a Lookup without a contained Segment.")

\* LogEvent::entry: the first segment must be a field, or unreachable!() is hit
entry(log, lookup) ==
    IF lookup # << >> /\ Head(lookup).kind = "field"
    THEN entry_walk(as_map(log), Head(lookup).v, Tail(lookup), <<Head(lookup).v>>)
    ELSE Panic("It is an invariant to have a Lookup without a contained Segment.")

\* The map with `value` stored under the last of `keys`, reached through the
\* maps under the keys before it.
RECURSIVE map_insert_at(_, _, _)
map_insert_at(map, keys, value) ==
    IF Len(keys) = 1 THEN MapWith(map, Head(keys), value)
    ELSE MapWith(map, Head(keys), Map(map_insert_at(map[Head(keys)].v, Tail(keys), value)))

\* Entry::or_insert_with on the Entry that entry returned: a vacant entry is
\* filled with the fallback, an occupied one is left alone.
or_insert_with(log, e, fallback) ==
    IF e.kind = "vacant"
    THEN [log EXCEPT !.fields = Map(map_insert_at(as_map(log), e.v, fallback))]
    ELSE log

\* Index<T> for LogEvent: self.get(key).expect(..)
LogEvent_index(log, key) ==
    IF LogEvent_get(log, key) = None
    THEN Panic("Key is not found: " \o key)
    ELSE Ok(LogEvent_get(log, key))

\* From<BTreeMap<String, Value>> and From<HashMap<String, Value>>
LogEvent_from_map(map) == LogEvent(Map(map), DefaultMetadata)

\* From<Bytes>: message and the capture time under the configured keys
LogEvent_from_bytes(message, now) ==
    LogEvent_insert(LogEvent_insert(LogEvent_default, message_key, Bytes(message)),
                    timestamp_key, Ts(now))

----------------------------------------------------------------------------
(* log Target (vrl_target/log.rs): Event(LogEvent) | Events(Vec) | Value(value, metadata) *)

Unit == [kind |-> "unit", v |-> 0]

LogTargetEvent(log) == [tag |-> "Event", log |-> log]
LogTargetValue(value, metadata) == [tag |-> "Value", value |-> value, metadata |-> metadata]

RootInsertError == "Cannot insert as root of Event unless it is a map."

\* Mutant: the root arm stores whatever value it is given as the record's fields.
LogTarget_insert_unchecked(t, path, vrl_value) ==
    LET value == ValueFrom(vrl_value) IN
    IF is_root(path)
    THEN [target |-> LogTargetEvent([t.log EXCEPT !.fields = value]), res |-> Ok(Unit)]
    ELSE [target |-> LogTargetEvent(insert_path(t.log, path, value)), res |-> Ok(Unit)]

\* Mutant: the root arm inserts the map's entries into the record instead of replacing it.
LogTarget_insert_root_extends(t, path, vrl_value) ==
    LET value == ValueFrom(vrl_value) IN
    IF is_root(path)
    THEN IF value.kind = "map"
         THEN [target |-> LogTargetEvent(extend(t.log, map_iter(value.v, KeyOrder))),
               res |-> Ok(Unit)]
         ELSE [target |-> t, res |-> Err(RootInsertError)]
    ELSE [target |-> LogTargetEvent(insert_path(t.log, path, value)), res |-> Ok(Unit)]

\* Mutant: the root arm replaces the fields and keeps the record's metadata.
LogTarget_insert_root_keeps_metadata(t, path, vrl_value) ==
    CASE t.tag = "Value" ->
            [target |-> [t EXCEPT !.value = ValInsert(t.value, path, vrl_value)], res |-> Ok(Unit)]
      [] t.tag = "Event" ->
            LET value == ValueFrom(vrl_value) IN
            IF is_root(path)
            THEN IF value.kind = "map"
                 THEN [target |-> LogTargetEvent([t.log EXCEPT !.fields = value]), res |-> Ok(Unit)]
                 ELSE [target |-> t, res |-> Err(RootInsertError)]
            ELSE [target |-> LogTargetEvent(insert_path(t.log, path, value)), res |-> Ok(Unit)]
      [] OTHER -> [target |-> t, res |-> Ok(Unit)]

\* [target, res]
LogTarget_insert(t, path, vrl_value) ==
    CASE t.tag = "Value" ->
            [target |-> [t EXCEPT !.value = ValInsert(t.value, path, vrl_value)], res |-> Ok(Unit)]
      [] t.tag = "Event" ->
            LET value == ValueFrom(vrl_value) IN
            IF is_root(path)
            THEN IF value.kind = "map"
                 THEN [target |-> LogTargetEvent(LogEvent_from_map(value.v)), res |-> Ok(Unit)]
                 ELSE [target |-> t, res |-> Err(RootInsertError)]
            ELSE [target |-> LogTargetEvent(insert_path(t.log, path, value)), res |-> Ok(Unit)]
      [] OTHER -> [target |-> t, res |-> Ok(Unit)]

LogTarget_get(t, path) ==
    CASE t.tag = "Value" -> Ok(ValGet(t.value, path))
      [] t.tag = "Event" ->
            IF is_root(path)
            THEN Ok(ValueFrom(Map(as_map(t.log))))
            ELSE LET val == ValGet(Map(as_map(t.log)), path)
                 IN Ok(IF val = None THEN None ELSE ValueFrom(val))
      [] OTHER -> Ok(None)

\* Mutant: the non-root arm reads the value and leaves it in the record.
LogTarget_remove_keeps(t, path, compact) ==
    IF is_root(path)
    THEN [target |-> LogTargetEvent([t.log EXCEPT !.fields = Map(EmptyMap)]),
          res |-> Ok(ValueFrom(Map(as_map(t.log))))]
    ELSE [target |-> t, res |-> Ok(ValGet(Map(as_map(t.log)), path))]

\* Mutant: the root arm hands out a copy of the fields and leaves them in the record.
LogTarget_remove_root_copies(t, path, compact) ==
    CASE t.tag = "Value" ->
            IF is_root(path)
            THEN [target |-> [t EXCEPT !.value = Null], res |-> Ok(t.value)]
            ELSE LET r == ValRemove(t.value, path, compact)
                 IN [target |-> [t EXCEPT !.value = r.val], res |-> Ok(r.removed)]
      [] t.tag = "Event" ->
            IF is_root(path)
            THEN [target |-> t, res |-> Ok(ValueFrom(Map(as_map(t.log))))]
            ELSE LET r == ValRemove(Map(as_map(t.log)), path, FALSE)
                 IN [target |-> LogTargetEvent([t.log EXCEPT !.fields = r.val]),
                     res |-> Ok(IF r.removed = None THEN None ELSE ValueFrom(r.removed))]
      [] OTHER -> [target |-> t, res |-> Ok(None)]

\* [target, res]; the Event arm never passes compact on: log.remove(path) is remove without prune
LogTarget_remove(t, path, compact) ==
    CASE t.tag = "Value" ->
            IF is_root(path)
            THEN [target |-> [t EXCEPT !.value = Null], res |-> Ok(t.value)]
            ELSE LET r == ValRemove(t.value, path, compact)
                 IN [target |-> [t EXCEPT !.value = r.val], res |-> Ok(r.removed)]
      [] t.tag = "Event" ->
            IF is_root(path)
            THEN [target |-> LogTargetEvent([t.log EXCEPT !.fields = Map(EmptyMap)]),
                  res |-> Ok(ValueFrom(Map(as_map(t.log))))]
            ELSE LET r == ValRemove(Map(as_map(t.log)), path, FALSE)
                 IN [target |-> LogTargetEvent([t.log EXCEPT !.fields = r.val]),
                     res |-> Ok(IF r.removed = None THEN None ELSE ValueFrom(r.removed))]
      [] OTHER -> [target |-> t, res |-> Ok(None)]

----------------------------------------------------------------------------
(* Metric and its Target (vrl_target/metric.rs) *)

Some(x) == [kind |-> "some", v |-> x]

Metric(name, namespace, timestamp, kind, tags) ==
    [variant |-> "Metric", name |-> name, namespace |-> namespace, timestamp |-> timestamp,
     kind |-> kind, tags |-> tags, value |-> "counter"]

VALID_METRIC_PATHS_SET == ".name, .namespace, .timestamp, .kind, .tags"
VALID_METRIC_PATHS_GET == ".name, .namespace, .timestamp, .kind, .tags, .type"
MAX_METRIC_PATH_DEPTH == 3

SetPathError == "cannot set root path"

InvalidPath(path, expected) ==
    "invalid path " \o path_to_string(path) \o ": expected one of " \o expected

\* The field names of the first `limit` segments; a path of field segments has
\* one alternative.
to_alternative_components(path, limit) ==
    << [i \in 1..(IF Len(path) < limit THEN Len(path) ELSE limit) |-> path[i].v] >>

\* vrl::Value::try_bytes / try_bytes_utf8_lossy / try_timestamp / try_object
TypeError(want) == "expected " \o want
try_bytes(value) == IF value.kind = "bytes" THEN Ok(value.v) ELSE Err(TypeError("string"))
try_timestamp(value) == IF value.kind = "timestamp" THEN Ok(value.v) ELSE Err(TypeError("timestamp"))
try_object(value) == IF value.kind = "map" THEN Ok(value.v) ELSE Err(TypeError("object"))

\* String::from_utf8_lossy: a Metric's strings are UTF-8, every invalid byte
\* sequence of the input is replaced by U+FFFD. "<ff>" stands for the byte
\* 0xFF, which no UTF-8 string contains, "<fffd>" for the replacement character.
from_utf8_lossy(bytes) ==
    CASE bytes = "x<ff>" -> "x<fffd>"
      [] OTHER -> bytes

try_bytes_utf8_lossy(value) ==
    IF value.kind = "bytes" THEN Ok(from_utf8_lossy(value.v)) ELSE Err(TypeError("string"))

\* MetricKind::try_from(vrl::Value)
MetricKind_try_from(value) ==
    IF value.kind = "bytes" /\ value.v \in {"absolute", "incremental"}
    THEN Ok(value.v)
    ELSE Err("invalid metric kind: metrics can only be absolute or incremental")

\* Metric::set_tag_value, tag_value, delete_tag, tags
set_tag_value(metric, name, value) ==
    [metric EXCEPT !.tags = Some(MapWith(IF metric.tags = None THEN EmptyMap ELSE metric.tags.v,
                                         name, value))]
tag_value(metric, name) ==
    IF metric.tags # None /\ name \in DOMAIN metric.tags.v THEN Bytes(metric.tags.v[name]) ELSE None
delete_tag(metric, name) ==
    IF metric.tags # None /\ name \in DOMAIN metric.tags.v
    THEN [metric |-> [metric EXCEPT !.tags = Some(MapWithout(metric.tags.v, name))],
          removed |-> Bytes(metric.tags.v[name])]
    ELSE [metric |-> metric, removed |-> None]
tags_value(tags) == Map([k \in DOMAIN tags |-> Bytes(tags[k])])


\* for (field, value) in value.iter() { metric.set_tag_value(field, value.try_bytes_utf8_lossy()?) }
\* [metric, res]: the tags set before a failing entry stay set
\* Mutant: the object replaces the tag set instead of being added to it.
RECURSIVE insert_tags_replacing(_, _, _)
insert_tags_replacing(metric, object, order) ==
    IF order = << >> THEN [metric |-> metric, res |-> Ok(Unit)]
    ELSE IF Head(order) \notin DOMAIN object THEN insert_tags_replacing(metric, object, Tail(order))
    ELSE LET b == try_bytes_utf8_lossy(object[Head(order)]) IN
         IF ~b.ok THEN [metric |-> metric, res |-> Err(b.err)]
         ELSE LET kept == [k \in DOMAIN object \cap (IF metric.tags = None THEN {}
                                                      ELSE DOMAIN metric.tags.v) |->
                              metric.tags.v[k]]
              IN insert_tags_replacing(set_tag_value([metric EXCEPT !.tags = Some(kept)],
                                                     Head(order), b.val),
                                       object, Tail(order))

RECURSIVE insert_tags(_, _, _)
insert_tags(metric, object, order) ==
    IF order = << >> THEN [metric |-> metric, res |-> Ok(Unit)]
    ELSE IF Head(order) \notin DOMAIN object THEN insert_tags(metric, object, Tail(order))
    ELSE LET b == try_bytes_utf8_lossy(object[Head(order)]) IN
         IF ~b.ok THEN [metric |-> metric, res |-> Err(b.err)]
         ELSE insert_tags(set_tag_value(metric, Head(order), b.val), object, Tail(order))

\* Mutant: the kind arm stores whatever string it is given.
MetricTarget_insert_kind_unchecked(metric, path, value) ==
    IF is_root(path) THEN [metric |-> metric, res |-> Err(SetPathError)]
    ELSE LET alts == to_alternative_components(path, MAX_METRIC_PATH_DEPTH)
             fail(e) == [metric |-> metric, res |-> Err(e)]
         IN
         IF alts = << >> THEN fail(InvalidPath(path, VALID_METRIC_PATHS_SET))
         ELSE LET paths == alts[1] IN
              CASE paths = <<"tags">> ->
                      LET o == try_object(value) IN
                      IF ~o.ok THEN fail(o.err) ELSE insert_tags(metric, o.val, KeyOrder)
                [] Len(paths) = 2 /\ paths[1] = "tags" ->
                      LET b == try_bytes(value) IN
                      IF ~b.ok THEN fail(b.err)
                      ELSE [metric |-> set_tag_value(metric, paths[2], from_utf8_lossy(b.val)),
                            res |-> Ok(Unit)]
                [] paths = <<"name">> ->
                      LET b == try_bytes(value) IN
                      IF ~b.ok THEN fail(b.err)
                      ELSE [metric |-> [metric EXCEPT !.name = from_utf8_lossy(b.val)],
                            res |-> Ok(Unit)]
                [] paths = <<"namespace">> ->
                      LET b == try_bytes(value) IN
                      IF ~b.ok THEN fail(b.err)
                      ELSE [metric |-> [metric EXCEPT !.namespace = Some(from_utf8_lossy(b.val))],
                            res |-> Ok(Unit)]
                [] paths = <<"timestamp">> ->
                      LET t == try_timestamp(value) IN
                      IF ~t.ok THEN fail(t.err)
                      ELSE [metric |-> [metric EXCEPT !.timestamp = Some(t.val)], res |-> Ok(Unit)]
                [] paths = <<"kind">> ->
                      LET k == try_bytes(value) IN
                      IF ~k.ok THEN fail(k.err)
                      ELSE [metric |-> [metric EXCEPT !.kind = k.val], res |-> Ok(Unit)]
                [] OTHER -> fail(InvalidPath(path, VALID_METRIC_PATHS_SET))

\* [metric, res]
MetricTarget_insert(metric, path, value) ==
    IF is_root(path) THEN [metric |-> metric, res |-> Err(SetPathError)]
    ELSE LET alts == to_alternative_components(path, MAX_METRIC_PATH_DEPTH)
             fail(e) == [metric |-> metric, res |-> Err(e)]
         IN
         IF alts = << >> THEN fail(InvalidPath(path, VALID_METRIC_PATHS_SET))
         ELSE LET paths == alts[1] IN
              CASE paths = <<"tags">> ->
                      LET o == try_object(value) IN
                      IF ~o.ok THEN fail(o.err) ELSE insert_tags(metric, o.val, KeyOrder)
                [] Len(paths) = 2 /\ paths[1] = "tags" ->
                      LET b == try_bytes(value) IN
                      IF ~b.ok THEN fail(b.err)
                      ELSE [metric |-> set_tag_value(metric, paths[2], from_utf8_lossy(b.val)),
                            res |-> Ok(Unit)]
                [] paths = <<"name">> ->
                      LET b == try_bytes(value) IN
                      IF ~b.ok THEN fail(b.err)
                      ELSE [metric |-> [metric EXCEPT !.name = from_utf8_lossy(b.val)],
                            res |-> Ok(Unit)]
                [] paths = <<"namespace">> ->
                      LET b == try_bytes(value) IN
                      IF ~b.ok THEN fail(b.err)
                      ELSE [metric |-> [metric EXCEPT !.namespace = Some(from_utf8_lossy(b.val))],
                            res |-> Ok(Unit)]
                [] paths = <<"timestamp">> ->
                      LET t == try_timestamp(value) IN
                      IF ~t.ok THEN fail(t.err)
                      ELSE [metric |-> [metric EXCEPT !.timestamp = Some(t.val)], res |-> Ok(Unit)]
                [] paths = <<"kind">> ->
                      LET k == MetricKind_try_from(value) IN
                      IF ~k.ok THEN fail(k.err)
                      ELSE [metric |-> [metric EXCEPT !.kind = k.val], res |-> Ok(Unit)]
                [] OTHER -> fail(InvalidPath(path, VALID_METRIC_PATHS_SET))

\* Mutant: the tags are left out of the map.
metric_all_fields_without_tags(metric) ==
    LET names == {"name", "kind", "type"}
                 \cup (IF metric.namespace # None THEN {"namespace"} ELSE {})
                 \cup (IF metric.timestamp # None THEN {"timestamp"} ELSE {})
    IN Map([n \in names |->
              CASE n = "name" -> Bytes(metric.name)
                [] n = "namespace" -> Bytes(metric.namespace.v)
                [] n = "timestamp" -> Ts(metric.timestamp.v)
                [] n = "kind" -> Bytes(metric.kind)
                [] OTHER -> Bytes(metric.value)])

\* get(root): the map of every field that is set
metric_all_fields(metric) ==
    LET names == {"name", "kind", "type"}
                 \cup (IF metric.namespace # None THEN {"namespace"} ELSE {})
                 \cup (IF metric.timestamp # None THEN {"timestamp"} ELSE {})
                 \cup (IF metric.tags # None THEN {"tags"} ELSE {})
    IN Map([n \in names |->
              CASE n = "name" -> Bytes(metric.name)
                [] n = "namespace" -> Bytes(metric.namespace.v)
                [] n = "timestamp" -> Ts(metric.timestamp.v)
                [] n = "kind" -> Bytes(metric.kind)
                [] n = "tags" -> tags_value(metric.tags.v)
                [] OTHER -> Bytes(metric.value)])

\* One pass of `for paths in path.to_alternative_components(..)`: a result, or
\* `continue` to the next alternative and, after the last, Ok(None).
RECURSIVE metric_get_alternatives(_, _, _)
metric_get_alternatives(metric, path, alts) ==
    IF alts = << >> THEN Ok(None)
    ELSE LET paths == Head(alts)
             continue == metric_get_alternatives(metric, path, Tail(alts))
         IN
         CASE paths = <<"name">> -> Ok(Bytes(metric.name))
           [] paths = <<"namespace">> ->
                 IF metric.namespace # None THEN Ok(Bytes(metric.namespace.v)) ELSE continue
           [] paths = <<"timestamp">> ->
                 IF metric.timestamp # None THEN Ok(Ts(metric.timestamp.v)) ELSE continue
           [] paths = <<"kind">> -> Ok(Bytes(metric.kind))
           [] paths = <<"tags">> ->
                 Ok(IF metric.tags # None THEN tags_value(metric.tags.v) ELSE None)
           [] Len(paths) = 2 /\ paths[1] = "tags" ->
                 IF tag_value(metric, paths[2]) # None THEN Ok(tag_value(metric, paths[2]))
                 ELSE continue
           [] paths = <<"type">> -> Ok(Bytes(metric.value))
           [] OTHER -> Err(InvalidPath(path, VALID_METRIC_PATHS_GET))

\* Mutant: a path that is not a metric field reads as nothing instead of failing.
MetricTarget_get_lenient(metric, path) ==
    IF is_root(path) THEN Ok(metric_all_fields(metric))
    ELSE LET r == metric_get_alternatives(metric, path,
                      to_alternative_components(path, MAX_METRIC_PATH_DEPTH))
         IN IF r.ok THEN r ELSE Ok(None)

MetricTarget_get(metric, path) ==
    IF is_root(path) THEN Ok(metric_all_fields(metric))
    ELSE metric_get_alternatives(metric, path,
                                 to_alternative_components(path, MAX_METRIC_PATH_DEPTH))

\* Mutant: a root remove clears every optional field and returns what the
\* Metric held.
MetricTarget_remove_root_clears(metric, path, compact) ==
    IF is_root(path)
    THEN [metric |-> [metric EXCEPT !.namespace = None, !.timestamp = None, !.tags = None],
          res |-> Ok(metric_all_fields(metric))]
    ELSE LET alts == to_alternative_components(path, MAX_METRIC_PATH_DEPTH) IN
         IF alts = << >> THEN [metric |-> metric, res |-> Ok(None)]
         ELSE LET paths == alts[1] IN
              CASE paths = <<"namespace">> ->
                      [metric |-> [metric EXCEPT !.namespace = None],
                       res |-> Ok(IF metric.namespace = None THEN None
                                  ELSE Bytes(metric.namespace.v))]
                [] paths = <<"timestamp">> ->
                      [metric |-> [metric EXCEPT !.timestamp = None],
                       res |-> Ok(IF metric.timestamp = None THEN None
                                  ELSE Ts(metric.timestamp.v))]
                [] paths = <<"tags">> ->
                      [metric |-> [metric EXCEPT !.tags = None],
                       res |-> Ok(IF metric.tags = None THEN None
                                  ELSE tags_value(metric.tags.v))]
                [] Len(paths) = 2 /\ paths[1] = "tags" ->
                      LET d == delete_tag(metric, paths[2])
                      IN [metric |-> d.metric, res |-> Ok(d.removed)]
                [] OTHER ->
                      [metric |-> metric, res |-> Err(InvalidPath(path, VALID_METRIC_PATHS_SET))]

\* Mutant: name has a remove arm, which hands the name out and leaves it empty.
MetricTarget_remove_takes_name(metric, path, compact) ==
    IF is_root(path) THEN [metric |-> metric, res |-> Err(SetPathError)]
    ELSE LET alts == to_alternative_components(path, MAX_METRIC_PATH_DEPTH) IN
         IF alts = << >> THEN [metric |-> metric, res |-> Ok(None)]
         ELSE LET paths == alts[1] IN
              CASE paths = <<"namespace">> ->
                      [metric |-> [metric EXCEPT !.namespace = None],
                       res |-> Ok(IF metric.namespace = None THEN None
                                  ELSE Bytes(metric.namespace.v))]
                [] paths = <<"timestamp">> ->
                      [metric |-> [metric EXCEPT !.timestamp = None],
                       res |-> Ok(IF metric.timestamp = None THEN None
                                  ELSE Ts(metric.timestamp.v))]
                [] paths = <<"tags">> ->
                      [metric |-> [metric EXCEPT !.tags = None],
                       res |-> Ok(IF metric.tags = None THEN None
                                  ELSE tags_value(metric.tags.v))]
                [] Len(paths) = 2 /\ paths[1] = "tags" ->
                      LET d == delete_tag(metric, paths[2])
                      IN [metric |-> d.metric, res |-> Ok(d.removed)]
                [] paths = <<"name">> ->
                      [metric |-> [metric EXCEPT !.name = ""], res |-> Ok(Bytes(metric.name))]
                [] OTHER ->
                      [metric |-> metric, res |-> Err(InvalidPath(path, VALID_METRIC_PATHS_SET))]

\* Mutant: the namespace arm reads the namespace and leaves it in place (no take()).
MetricTarget_remove_reads_namespace(metric, path, compact) ==
    IF is_root(path) THEN [metric |-> metric, res |-> Err(SetPathError)]
    ELSE LET alts == to_alternative_components(path, MAX_METRIC_PATH_DEPTH) IN
         IF alts = << >> THEN [metric |-> metric, res |-> Ok(None)]
         ELSE LET paths == alts[1] IN
              CASE paths = <<"namespace">> ->
                      [metric |-> metric,
                       res |-> Ok(IF metric.namespace = None THEN None
                                  ELSE Bytes(metric.namespace.v))]
                [] paths = <<"timestamp">> ->
                      [metric |-> [metric EXCEPT !.timestamp = None],
                       res |-> Ok(IF metric.timestamp = None THEN None
                                  ELSE Ts(metric.timestamp.v))]
                [] paths = <<"tags">> ->
                      [metric |-> [metric EXCEPT !.tags = None],
                       res |-> Ok(IF metric.tags = None THEN None
                                  ELSE tags_value(metric.tags.v))]
                [] Len(paths) = 2 /\ paths[1] = "tags" ->
                      LET d == delete_tag(metric, paths[2])
                      IN [metric |-> d.metric, res |-> Ok(d.removed)]
                [] OTHER ->
                      [metric |-> metric, res |-> Err(InvalidPath(path, VALID_METRIC_PATHS_SET))]

\* [metric, res]
MetricTarget_remove(metric, path, compact) ==
    IF is_root(path) THEN [metric |-> metric, res |-> Err(SetPathError)]
    ELSE LET alts == to_alternative_components(path, MAX_METRIC_PATH_DEPTH) IN
         IF alts = << >> THEN [metric |-> metric, res |-> Ok(None)]
         ELSE LET paths == alts[1] IN
              CASE paths = <<"namespace">> ->
                      [metric |-> [metric EXCEPT !.namespace = None],
                       res |-> Ok(IF metric.namespace = None THEN None
                                  ELSE Bytes(metric.namespace.v))]
                [] paths = <<"timestamp">> ->
                      [metric |-> [metric EXCEPT !.timestamp = None],
                       res |-> Ok(IF metric.timestamp = None THEN None
                                  ELSE Ts(metric.timestamp.v))]
                [] paths = <<"tags">> ->
                      [metric |-> [metric EXCEPT !.tags = None],
                       res |-> Ok(IF metric.tags = None THEN None
                                  ELSE tags_value(metric.tags.v))]
                [] Len(paths) = 2 /\ paths[1] = "tags" ->
                      LET d == delete_tag(metric, paths[2])
                      IN [metric |-> d.metric, res |-> Ok(d.removed)]
                [] OTHER ->
                      [metric |-> metric, res |-> Err(InvalidPath(path, VALID_METRIC_PATHS_SET))]

----------------------------------------------------------------------------
(* serde_json::Value and TryFrom<serde_json::Value> for LogEvent *)

JNull == [kind |-> "jnull", v |-> 0]
JBool(b) == [kind |-> "jbool", v |-> b]
JNumber(n) == [kind |-> "jnumber", v |-> n]
JString(s) == [kind |-> "jstring", v |-> s]
JArray(s) == [kind |-> "jarray", v |-> s]
JObject(f) == [kind |-> "jobject", v |-> f]

\* From<serde_json::Value> for Value
RECURSIVE Value_from_json(_)
Value_from_json(j) ==
    CASE j.kind = "jnull" -> Null
      [] j.kind = "jbool" -> Bool(j.v)
      [] j.kind = "jnumber" -> Integer(j.v)
      [] j.kind = "jstring" -> Bytes(j.v)
      [] j.kind = "jarray" -> Array([i \in DOMAIN j.v |-> Value_from_json(j.v[i])])
      [] OTHER -> Map([k \in DOMAIN j.v |-> Value_from_json(j.v[k])])

\* Mutant: the entries are collected into a LogEvent (FromIterator, which
\* inserts key by key) instead of into a BTreeMap.
LogEvent_try_from_json_collecting(j) ==
    IF j.kind = "jobject"
    THEN Ok(extend(LogEvent_default,
                   map_iter([k \in DOMAIN j.v |-> Value_from_json(j.v[k])], KeyOrder)))
    ELSE Err("Attempted to convert non-Object JSON into a LogEvent.")

LogEvent_try_from_json(j) ==
    IF j.kind = "jobject"
    THEN Ok(LogEvent_from_map([k \in DOMAIN j.v |-> Value_from_json(j.v[k])]))
    ELSE Err("Attempted to convert non-Object JSON into a LogEvent.")

\* The RFC 3339 text of a timestamp, for the timestamps of the model
timestamp_to_string(t) ==
    CASE t = 1 -> "1970-01-01T00:00:01Z"
      [] OTHER -> "1970-01-01T00:00:00Z"

\* Serialize for Value: bytes as a (lossily decoded) string, a timestamp as
\* its RFC 3339 text, arrays and maps element by element.
RECURSIVE Value_to_json(_)
Value_to_json(x) ==
    CASE x.kind = "null" -> JNull
      [] x.kind = "boolean" -> JBool(x.v)
      [] x.kind = "integer" -> JNumber(x.v)
      [] x.kind = "timestamp" -> JString(timestamp_to_string(x.v))
      [] x.kind = "bytes" -> JString(from_utf8_lossy(x.v))
      [] x.kind = "array" -> JArray([i \in DOMAIN x.v |-> Value_to_json(x.v[i])])
      [] OTHER -> JObject([k \in DOMAIN x.v |-> Value_to_json(x.v[k])])

\* Mutant: the derived Serialize, which writes every field of the struct.
LogEvent_serialize_derived(log) ==
    Ok(JObject([k \in DOMAIN as_map(log) \cup {"metadata"} |->
                  IF k \in DOMAIN as_map(log) THEN Value_to_json(as_map(log)[k])
                  ELSE JNumber(Cardinality(log.metadata))]))

\* Serialize for LogEvent: serializer.collect_map(self.as_map().iter())
LogEvent_serialize(log) ==
    Ok(JObject([k \in DOMAIN as_map(log) |-> Value_to_json(as_map(log)[k])]))

\* TryInto<serde_json::Value> for LogEvent: serde_json::to_value(self.fields)
LogEvent_try_into_json(log) == Ok(Value_to_json(log.fields))

----------------------------------------------------------------------------
(* VrlTarget (vrl_target/mod.rs): Log(LogTarget) | Metric(MetricTarget) *)

NoTarget == [variant |-> "None", inner |-> None]

VrlTarget_new(ev) ==
    IF ev.variant = "Log"
    THEN [variant |-> "Log", inner |-> LogTargetEvent(ev)]
    ELSE [variant |-> "Metric", inner |-> ev]

value_into_events(value, metadata) ==
    CASE value.kind = "array" ->
            [i \in DOMAIN value.v |->
                LogEvent_insert(new_with_metadata(metadata), message_key, value.v[i])]
      [] value.kind = "map" ->
            << extend(new_with_metadata(metadata), map_iter(value.v, KeyOrder)) >>
      [] OTHER -> << LogEvent_insert(new_with_metadata(metadata), message_key, value) >>

\* Mutant: the record of a log target is rebuilt from its fields, key by key.
into_events_rebuilds(t) ==
    CASE t.variant = "Log" /\ t.inner.tag = "Event" ->
            value_into_events(t.inner.log.fields, t.inner.log.metadata)
      [] t.variant = "Log" /\ t.inner.tag = "Events" -> t.inner.logs
      [] t.variant = "Log" /\ t.inner.tag = "Value" ->
            value_into_events(ValueFrom(t.inner.value), t.inner.metadata)
      [] OTHER -> << t.inner >>

into_events(t) ==
    CASE t.variant = "Log" /\ t.inner.tag = "Event" -> << t.inner.log >>
      [] t.variant = "Log" /\ t.inner.tag = "Events" -> t.inner.logs
      [] t.variant = "Log" /\ t.inner.tag = "Value" ->
            value_into_events(ValueFrom(t.inner.value), t.inner.metadata)
      [] OTHER -> << t.inner >>

\* The older adapter (event/vrl_target.rs): LogEvent(vrl::Value, EventMetadata) |
\* Metric(Metric). new takes a log record apart into its field map, as a
\* value, and its metadata.
VrlTargetLegacy_new(ev) ==
    IF ev.variant = "Log"
    THEN [variant |-> "Log", inner |-> LogTargetValue(ValueFrom(ev.fields), ev.metadata)]
    ELSE [variant |-> "Metric", inner |-> ev]

\* into_events of the older adapter: a log is rebuilt by value_into_events
VrlTargetLegacy_into_events(t) ==
    IF t.variant = "Log"
    THEN value_into_events(ValueFrom(t.inner.value), t.inner.metadata)
    ELSE << t.inner >>

\* [target, res]
VrlTarget_insert(t, path, value) ==
    IF t.variant = "Log"
    THEN LET r == LogTarget_insert(t.inner, path, value)
         IN [target |-> [t EXCEPT !.inner = r.target], res |-> r.res]
    ELSE LET r == MetricTarget_insert(t.inner, path, value)
         IN [target |-> [t EXCEPT !.inner = r.metric], res |-> r.res]

VrlTarget_get(t, path) ==
    IF t.variant = "Log" THEN LogTarget_get(t.inner, path) ELSE MetricTarget_get(t.inner, path)

\* [target, res]
VrlTarget_remove(t, path, compact) ==
    IF t.variant = "Log"
    THEN LET r == LogTarget_remove(t.inner, path, compact)
         IN [target |-> [t EXCEPT !.inner = r.target], res |-> r.res]
    ELSE LET r == MetricTarget_remove(t.inner, path, compact)
         IN [target |-> [t EXCEPT !.inner = r.metric], res |-> r.res]

----------------------------------------------------------------------------
(* Inputs *)

\* keys passed to the LogEvent API
Keys == {"a", "b", "a.b"}
EventValues == {Integer(1), Bytes("x"), Map(EmptyMap)}

\* paths and values a program passes to a log target
LogPaths == {RootPath, P1("a"), P1("b"), P2("a", "b"), P2("a", "d"), P3("a", "b", "c")}
LogValues ==
    {Integer(1), Bytes("x"), Map(EmptyMap), Map([b |-> Integer(1)]),
     Map([a |-> Map([d |-> Integer(2)])]),
     Array(<< >>), Array(<<Integer(1)>>), Array(<<Integer(1), Bytes("x"), Integer(3)>>)}

\* paths and values a program passes to a metric target
MetricPaths ==
    {RootPath, P1("name"), P1("namespace"), P1("timestamp"), P1("kind"), P1("tags"),
     P2("tags", "t1"), P2("tags", "t2"), P1("type"), P1("zork"), P2("name", "t1"),
     P3("tags", "t1", "flork"), <<Field("tags"), Field("t1"), Field("a"), Field("b")>>}
MetricValues ==
    {Bytes("x"), Bytes("incremental"), Bytes("absolute"), Ts(1), Integer(1),
     Bytes("x<ff>"),
     Map([t1 |-> Bytes("y")]), Map([t1 |-> Bytes("z"), t2 |-> Integer(1)]),
     Map([t2 |-> Bytes("x<ff>")])}

PathsOf(t) == IF t.variant = "Log" THEN LogPaths ELSE MetricPaths
ValuesOf(t) == IF t.variant = "Log" THEN LogValues ELSE MetricValues

\* the events sources construct
InitMaps ==
    {[a |-> Map([d |-> Integer(2)])],
     [a |-> Map([b |-> Map([c |-> Integer(1)])])],
     [b |-> Bytes("x")] @@ ("a.b" :> Integer(1))}
InitJson ==
    {JObject([a |-> JArray(<<JNumber(1), JNull>>), b |-> JObject([c |-> JString("x")])]),
     JArray(<<JNumber(1)>>), JString("x")}
\* JSON values handed to LogEvent::try_from
JsonInputs ==
    InitJson
    \cup {JObject([b |-> JBool(TRUE), c |-> JNull] @@ ("a.b" :> JNumber(1))),
          JObject(EmptyMap), JNull}
\* fallbacks handed to or_insert_with
Fallbacks == {Bytes("x")}
InitLogs ==
    {LogEvent_default, new_with_metadata({1})}
    \cup {LogEvent_from_map(m) : m \in InitMaps}
    \cup {LogEvent_from_bytes("hello", 1)}
    \cup {LogEvent_try_from_json(j).val : j \in {x \in InitJson : LogEvent_try_from_json(x).ok}}
InitMetrics ==
    {Metric("name", None, None, "absolute", None),
     Metric("zub", Some("zoob"), Some(1), "absolute", Some([t1 |-> "tog"]))}

\* merge and extend arguments
Incomings ==
    {LogEvent_insert(LogEvent_insert(new_with_metadata({2}), "a", Bytes("y")), "b", Integer(2)),
     LogEvent_insert(LogEvent_default, "a", Bool(TRUE))}
\* lookups passed to LogEvent::entry
EntryLookups ==
    {RootPath, P1("a"), P1("c"), P2("a", "b"), P2("b", "c"), P2("c", "d"), P3("a", "b", "c"),
     <<Field("a"), Index(0)>>, <<Field("c"), Index(0)>>, <<Field("a"), Index(0), Field("b")>>,
     <<Field("a"), Field("b"), Index(1)>>, <<Index(0)>>, <<Index(0), Field("a")>>}
FieldLists == {<<"a">>, <<"a", "b">>, <<"b", "b">>, << >>}
ExtendIters == {<< <<"a.b", Integer(1)>>, <<"b", Bytes("x")>> >>}

----------------------------------------------------------------------------
(* Calls *)

NoCall ==
    [op |-> "none", key |-> "", path |-> << >>, value |-> None, compact |-> FALSE,
     incoming |-> None, fields |-> << >>, res |-> Ok(Unit)]
NoRemove == [op |-> "other", path |-> << >>, ok |-> TRUE]

----------------------------------------------------------------------------
(* gRPC source (sources/vector_grpc.rs): Service { pipeline, healthy } *)

Requests == 1 .. MaxRequests
Setters == 1 .. MaxSetters

\* EventRequest.message: an Option of the wire form of an event
Messages == {None, Some("log"), Some("metric")}

\* Event::from(message)
Event_from_proto(m) == [kind |-> "event", v |-> m]

\* what push_events returns: Ok(Response<EventAck>) or Err(Status)
NoResponse == [kind |-> "none", code |-> "", message |-> ""]
EventAck(message) == [kind |-> "ok", code |-> "Ok", message |-> message]
Status(code, message) == [kind |-> "err", code |-> code, message |-> message]

NoRequest == [pc |-> "idle", message |-> None, response |-> NoResponse, sent |-> 0]

\* Pipeline: a bounded channel to the topology; the receiver may be gone
OpenPipeline == [queue |-> << >>, closed |-> FALSE]

\* pipeline.send(event): [pipeline, ok, err]
Pipeline_send(p, r, ev) ==
    IF p.closed
    THEN [pipeline |-> p, ok |-> FALSE, err |-> "channel closed"]
    ELSE [pipeline |-> [p EXCEPT !.queue = Append(@, [req |-> r, event |-> ev])],
          ok |-> TRUE, err |-> ""]

\* message.map(Event::from).ok_or(Status::invalid_argument("missing event"))
push_events_decode(message) ==
    IF message = None
    THEN [ok |-> FALSE, event |-> None, status |-> Status("InvalidArgument", "missing event")]
    ELSE [ok |-> TRUE, event |-> Event_from_proto(message.v), status |-> NoResponse]

\* Mutant: the acknowledgement is returned whatever send returned.
push_events_respond_always(sent) == EventAck("success")

\* .map(|_| response).map_err(|err| Status::unavailable(err.to_string()))
push_events_respond(sent) ==
    IF sent.ok THEN EventAck("success") ELSE Status("Unavailable", sent.err)

\* AtomicBool::compare_exchange_weak(current, new): the outcomes it can have.
\* It fails when the flag is not `current`, and may fail when it is.
compare_exchange_weak(flag, current, new) ==
    IF flag = current
    THEN {[ok |-> TRUE, flag |-> new], [ok |-> FALSE, flag |-> flag]}
    ELSE {[ok |-> FALSE, flag |-> flag]}

\* health_check: healthy.load(Relaxed)
health_check(flag) == IF flag THEN "Serving" ELSE "NotServing"

NoSetter == [pc |-> "idle", h |-> FALSE]

\* run: healthy = Arc::new(AtomicBool::new(true)), no request yet
SourceInit ==
    /\ healthy = TRUE
    /\ pipeline = OpenPipeline
    /\ requests = [r \in Requests |-> NoRequest]
    /\ setters = [t \in Setters |-> NoSetter]
    /\ health = "none"

----------------------------------------------------------------------------
(* gRPC sink (sinks/vector_grpc.rs): tower::Service for Client, Error, retry logic *)

\* tonic::Code of a failed push_events
Codes == {"Unknown", "Unavailable", "InvalidArgument"}

\* enum Error { Request { source }, Health, NoHost }
NoError == [kind |-> "none", code |-> ""]
ErrorRequest(code) == [kind |-> "Request", code |-> code]
ErrorHealth == [kind |-> "Health", code |-> ""]
ErrorNoHost == [kind |-> "NoHost", code |-> ""]

NoPush == [issued |-> 0, result |-> "none"]
NoOutcome == [kind |-> "idle", error |-> NoError]
NoRetry == [of |-> NoError, value |-> FALSE]

\* join_all(futures) is ready once every future is
join_all_ready(ps) == \A i \in DOMAIN ps : ps[i].result \notin {"none", "pending"}

\* Mutant: the failure reported is the one of the last failed request.
RECURSIVE collect_last_failure(_)
collect_last_failure(results) ==
    IF results = << >> THEN [kind |-> "ok", error |-> NoError]
    ELSE IF results[Len(results)] = "Ok"
         THEN collect_last_failure(SubSeq(results, 1, Len(results) - 1))
         ELSE [kind |-> "err", error |-> ErrorRequest(results[Len(results)])]

\* .into_iter().map(..).collect::<Result<_, _>>(): Ok, or the first Err in order
RECURSIVE collect(_)
collect(results) ==
    IF results = << >> THEN [kind |-> "ok", error |-> NoError]
    ELSE IF Head(results) = "Ok"
         THEN collect(Tail(results))
         ELSE [kind |-> "err", error |-> ErrorRequest(Head(results))]

\* what the remote health_check can answer
HealthResponses == {"Serving", "NotServing", "Unknown", "rpc failed"}

\* healthcheck(client)
healthcheck(response) == IF response = "Serving" THEN NoError ELSE ErrorHealth

\* urls given to get_authority: with an authority, without one, not a Uri
Urls == {"http://host:6000", "/path", "not a uri"}

\* get_authority(url)
get_authority(url) == IF url = "http://host:6000" THEN NoError ELSE ErrorNoHost

\* Mutant: no failed request is retried.
is_retriable_error_no_request(err) == err.kind # "Request"

\* VectorGrpcRetryLogic::is_retriable_error
is_retriable_error(err) == ~(err.kind = "Request" /\ err.code = "Unknown")

\* a sink that was built and has been given nothing yet
SinkInit ==
    /\ batch = << >>
    /\ pushes = << >>
    /\ outcome = NoOutcome
    /\ error = NoError
    /\ retriable = NoRetry

Init ==
    /\ phase = "event"
    /\ event \in InitLogs \cup InitMetrics
    /\ target = NoTarget
    /\ out = << >>
    /\ last = NoCall
    /\ last2 = NoRemove
    /\ prev = event
    /\ steps = 0
    /\ panicked = FALSE
    /\ SourceInit /\ SinkInit

\* A LogEvent call: every one goes through as_map/as_map_mut
EventCall(call, log) ==
    /\ last' = call
    /\ last2' = NoRemove
    /\ prev' = event
    /\ steps' = steps + 1
    /\ IF as_map_unreachable(event)
       THEN panicked' = TRUE /\ event' = event
       ELSE panicked' = panicked /\ event' = log
    /\ UNCHANGED <<phase, target, out>>
    /\ UNCHANGED grpcvars

CanCallEvent == phase = "event" /\ event.variant = "Log" /\ ~panicked /\ steps < MaxOps

EvInsert ==
    /\ CanCallEvent
    /\ \E key \in Keys, value \in EventValues :
          EventCall([NoCall EXCEPT !.op = "LogEvent::insert", !.key = key, !.value = value],
                    LogEvent_insert(event, key, value))

EvInsertPath ==
    /\ CanCallEvent
    /\ \E path \in LogPaths \ {RootPath}, value \in EventValues :
          EventCall([NoCall EXCEPT !.op = "LogEvent::insert_path", !.path = path, !.value = value],
                    insert_path(event, path, value))

EvInsertFlat ==
    /\ CanCallEvent
    /\ \E key \in Keys, value \in EventValues :
          EventCall([NoCall EXCEPT !.op = "LogEvent::insert_flat", !.key = key, !.value = value],
                    insert_flat(event, key, value))

EvTryInsert ==
    /\ CanCallEvent
    /\ \E key \in Keys, value \in EventValues :
          EventCall([NoCall EXCEPT !.op = "LogEvent::try_insert", !.key = key, !.value = value],
                    try_insert(event, key, value))

EvRemove ==
    /\ CanCallEvent
    /\ \E key \in Keys :
          EventCall([NoCall EXCEPT !.op = "LogEvent::remove", !.key = key,
                                   !.res = Ok(LogEvent_remove(event, key).removed)],
                    LogEvent_remove(event, key).log)

EvRemovePrune ==
    /\ CanCallEvent
    /\ \E key \in Keys, prune \in BOOLEAN :
          EventCall([NoCall EXCEPT !.op = "LogEvent::remove_prune", !.key = key, !.compact = prune,
                                   !.res = Ok(remove_prune(event, key, prune).removed)],
                    remove_prune(event, key, prune).log)

EvMerge ==
    /\ CanCallEvent
    /\ \E incoming \in Incomings, fields \in FieldLists :
          EventCall([NoCall EXCEPT !.op = "LogEvent::merge", !.incoming = incoming, !.fields = fields],
                    LogEvent_merge(event, incoming, fields))

EvExtend ==
    /\ CanCallEvent
    /\ \E iter \in ExtendIters :
          EventCall([NoCall EXCEPT !.op = "LogEvent::extend", !.fields = iter],
                    extend(event, iter))

\* A LogEvent call that reads: the record stays as it is; a panic ends the run
ReadCall(call, res) ==
    /\ last2' = NoRemove
    /\ prev' = event
    /\ steps' = steps + 1
    /\ IF as_map_unreachable(event)
       THEN panicked' = TRUE /\ last' = call /\ phase' = phase
       ELSE /\ panicked' = panicked
            /\ last' = [call EXCEPT !.res = res]
            /\ phase' = IF res.val = Aborted THEN "aborted" ELSE phase
    /\ UNCHANGED <<event, target, out>>
    /\ UNCHANGED grpcvars

\* event[key]
EvIndex ==
    /\ CanCallEvent
    /\ \E key \in Keys :
          ReadCall([NoCall EXCEPT !.op = "LogEvent::index", !.key = key],
                   LogEvent_index(event, key))

EvEntry ==
    /\ CanCallEvent
    /\ \E lookup \in EntryLookups :
          ReadCall([NoCall EXCEPT !.op = "LogEvent::entry", !.path = lookup],
                   entry(event, lookup))

EvSerialize ==
    /\ CanCallEvent
    /\ ReadCall([NoCall EXCEPT !.op = "LogEvent::serialize"], LogEvent_serialize(event))

EvTryIntoJson ==
    /\ CanCallEvent
    /\ ReadCall([NoCall EXCEPT !.op = "LogEvent::try_into"], LogEvent_try_into_json(event))

\* entry(lookup) and, when it returned an Entry, or_insert_with(fallback) on it
EvEntryOrInsert ==
    /\ CanCallEvent
    /\ \E lookup \in EntryLookups, fallback \in Fallbacks :
          LET r == entry(event, lookup)
              call == [NoCall EXCEPT !.op = "LogEvent::entry.or_insert_with",
                                     !.path = lookup, !.value = fallback]
          IN IF r.ok
             THEN EventCall([call EXCEPT !.res = r], or_insert_with(event, r.val, fallback))
             ELSE ReadCall(call, r)

\* LogEvent::try_from(json): the event a source builds from a JSON value
EvTryFromJson ==
    /\ phase = "event" /\ ~panicked /\ steps = 0
    /\ \E j \in JsonInputs :
          LET r == LogEvent_try_from_json(j) IN
          /\ event' = IF r.ok THEN r.val ELSE event
          /\ last' = [NoCall EXCEPT !.op = "LogEvent::try_from", !.value = j,
                                    !.res = IF r.ok THEN Ok(Unit) ELSE r]
    /\ last2' = NoRemove
    /\ prev' = event
    /\ steps' = steps + 1
    /\ UNCHANGED <<phase, target, out, panicked>>
    /\ UNCHANGED grpcvars

\* VrlTarget::new(event)
New ==
    /\ phase = "event" /\ ~panicked
    /\ phase' = "target"
    /\ target' = VrlTarget_new(event)
    /\ UNCHANGED <<event, out, last, last2, prev, steps, panicked>>
    /\ UNCHANGED grpcvars

CanCallTarget == phase = "target" /\ ~panicked /\ steps < MaxOps

\* every arm of the log target but the root insert goes through as_map/as_map_mut
TargetPanics(t, op, path) ==
    /\ t.variant = "Log" /\ t.inner.tag = "Event"
    /\ as_map_unreachable(t.inner.log)
    /\ ~(op = "insert" /\ is_root(path))

TargetCall(call, r) ==
    /\ last2' = IF last.op = "remove"
                THEN [op |-> "remove", path |-> last.path, ok |-> last.res.ok]
                ELSE NoRemove
    /\ prev' = target
    /\ steps' = steps + 1
    /\ IF TargetPanics(target, call.op, call.path)
       THEN panicked' = TRUE /\ target' = target /\ last' = call
       ELSE panicked' = panicked /\ target' = r.target /\ last' = [call EXCEPT !.res = r.res]
    /\ UNCHANGED <<phase, event, out>>
    /\ UNCHANGED grpcvars

Insert ==
    /\ CanCallTarget
    /\ \E path \in PathsOf(target), value \in ValuesOf(target) :
          TargetCall([NoCall EXCEPT !.op = "insert", !.path = path, !.value = value],
                     VrlTarget_insert(target, path, value))

Get ==
    /\ CanCallTarget
    /\ \E path \in PathsOf(target) :
          TargetCall([NoCall EXCEPT !.op = "get", !.path = path],
                     [target |-> target, res |-> VrlTarget_get(target, path)])

Remove ==
    /\ CanCallTarget
    /\ \E path \in PathsOf(target), compact \in BOOLEAN :
          TargetCall([NoCall EXCEPT !.op = "remove", !.path = path, !.compact = compact],
                     VrlTarget_remove(target, path, compact))

\* VrlTarget::into_events
IntoEvents ==
    /\ phase = "target" /\ ~panicked
    /\ phase' = "done"
    /\ out' = into_events(target)
    /\ UNCHANGED <<event, target, last, last2, prev, steps, panicked>>
    /\ UNCHANGED grpcvars

Next ==
    \/ EvInsert \/ EvInsertPath \/ EvInsertFlat \/ EvTryInsert
    \/ EvRemove \/ EvRemovePrune \/ EvMerge \/ EvExtend \/ EvIndex \/ EvEntry
    \/ EvSerialize \/ EvTryIntoJson \/ EvEntryOrInsert \/ EvTryFromJson
    \/ New \/ Insert \/ Get \/ Remove \/ IntoEvents

Spec == Init /\ [][Next]_vars

\* VrlTarget::new(event) of the older adapter
NewLegacy ==
    /\ phase = "event" /\ ~panicked
    /\ phase' = "legacy"
    /\ target' = VrlTargetLegacy_new(event)
    /\ UNCHANGED <<event, out, last, last2, prev, steps, panicked>>
    /\ UNCHANGED grpcvars

\* VrlTarget::into_events of the older adapter
IntoEventsLegacy ==
    /\ phase = "legacy" /\ ~panicked
    /\ phase' = "done"
    /\ out' = VrlTargetLegacy_into_events(target)
    /\ UNCHANGED <<event, target, last, last2, prev, steps, panicked>>
    /\ UNCHANGED grpcvars

\* both adapters of the repository side by side
NextAdapters ==
    \/ EvInsert \/ EvInsertPath \/ EvInsertFlat \/ EvTryInsert
    \/ EvRemove \/ EvRemovePrune \/ EvMerge \/ EvExtend \/ EvIndex \/ EvEntry
    \/ EvSerialize \/ EvTryIntoJson \/ EvEntryOrInsert \/ EvTryFromJson
    \/ New \/ Insert \/ Get \/ Remove \/ IntoEvents
    \/ NewLegacy \/ IntoEventsLegacy

SpecAdapters == Init /\ [][NextAdapters]_vars

----------------------------------------------------------------------------
(* Value::merge on its own: `event` holds the Value merged into *)

MergeValues ==
    {Bytes("hello "), Bytes("world"), Bytes("my_val"), Bool(TRUE), Bool(FALSE),
     Integer(1), Integer(2), Null, Ts(1), Array(<<Integer(1)>>), Map([a |-> Bytes("x")])}

InitValue ==
    /\ phase = "value"
    /\ event \in MergeValues
    /\ target = NoTarget
    /\ out = << >>
    /\ last = NoCall
    /\ last2 = NoRemove
    /\ prev = event
    /\ steps = 0
    /\ panicked = FALSE
    /\ SourceInit /\ SinkInit

\* current.merge(incoming)
MergeValue ==
    /\ phase = "value" /\ steps < MaxOps
    /\ \E incoming \in MergeValues :
          /\ event' = ValueMerge(event, incoming)
          /\ last' = [NoCall EXCEPT !.op = "Value::merge", !.value = incoming]
    /\ prev' = event
    /\ steps' = steps + 1
    /\ UNCHANGED <<phase, target, out, last2, panicked>>
    /\ UNCHANGED grpcvars

NextValue == MergeValue

SpecValueMerge == InitValue /\ [][NextValue]_vars

----------------------------------------------------------------------------
(* The gRPC source: push_events requests, set_healthy threads, health_check *)

\* no event is being worked on
NoEvent ==
    /\ phase = "grpc"
    /\ event = LogEvent_default
    /\ target = NoTarget
    /\ out = << >>
    /\ last = NoCall
    /\ last2 = NoRemove
    /\ prev = event
    /\ steps = 0
    /\ panicked = FALSE

InitSource == NoEvent /\ SourceInit /\ SinkInit

\* push_events up to its await: the message is decoded; a request without one
\* returns here
PushEvents(r) ==
    /\ requests[r].pc = "idle"
    /\ \E message \in Messages :
          LET d == push_events_decode(message) IN
          requests' = [requests EXCEPT ![r] =
              IF d.ok
              THEN [@ EXCEPT !.pc = "sending", !.message = message]
              ELSE [@ EXCEPT !.pc = "done", !.message = message, !.response = d.status]]
    /\ UNCHANGED <<healthy, pipeline, setters, health>>
    /\ UNCHANGED eventvars /\ UNCHANGED sinkvars

\* pipeline.clone().send(event).await resolves and push_events returns; the
\* send waits while the channel is full and open
PushEventsSent(r) ==
    /\ requests[r].pc = "sending"
    /\ pipeline.closed \/ Len(pipeline.queue) < PipelineCapacity
    /\ LET sent == Pipeline_send(pipeline, r,
                                 push_events_decode(requests[r].message).event) IN
          /\ pipeline' = sent.pipeline
          /\ requests' = [requests EXCEPT ![r] =
                [@ EXCEPT !.pc = "done",
                          !.sent = IF sent.ok THEN @ + 1 ELSE @,
                          !.response = push_events_respond(sent)]]
    /\ UNCHANGED <<healthy, setters, health>>
    /\ UNCHANGED eventvars /\ UNCHANGED sinkvars

\* the topology takes the next event out of the pipeline
PipelineRecv ==
    /\ pipeline.queue # << >>
    /\ pipeline' = [pipeline EXCEPT !.queue = Tail(@)]
    /\ UNCHANGED <<healthy, requests, setters, health>>
    /\ UNCHANGED eventvars /\ UNCHANGED sinkvars

\* the receiving end of the pipeline goes away
PipelineClose ==
    /\ ~pipeline.closed
    /\ pipeline' = [pipeline EXCEPT !.closed = TRUE]
    /\ UNCHANGED <<healthy, requests, setters, health>>
    /\ UNCHANGED eventvars /\ UNCHANGED sinkvars

\* a thread enters set_healthy(h)
SetHealthy(t) ==
    /\ setters[t].pc = "idle"
    /\ \E h \in BOOLEAN : setters' = [setters EXCEPT ![t] = [pc |-> "cas", h |-> h]]
    /\ UNCHANGED <<healthy, pipeline, requests, health>>
    /\ UNCHANGED eventvars /\ UNCHANGED sinkvars

\* compare_exchange_weak(!healthy, healthy, ..) returned Ok(_): break
CasOk(t) ==
    /\ setters[t].pc = "cas"
    /\ \E o \in compare_exchange_weak(healthy, ~setters[t].h, setters[t].h) :
          /\ o.ok
          /\ healthy' = o.flag
    /\ setters' = [setters EXCEPT ![t].pc = "returned"]
    /\ UNCHANGED <<pipeline, requests, health>>
    /\ UNCHANGED eventvars /\ UNCHANGED sinkvars

\* compare_exchange_weak(!healthy, healthy, ..) returned Err(_)
CasErr(t) ==
    /\ setters[t].pc = "cas"
    /\ \E o \in compare_exchange_weak(healthy, ~setters[t].h, setters[t].h) :
          /\ ~o.ok
          /\ healthy' = o.flag
    /\ setters' = [setters EXCEPT ![t].pc = "spin"]
    /\ UNCHANGED <<pipeline, requests, health>>
    /\ UNCHANGED eventvars /\ UNCHANGED sinkvars

\* std::hint::spin_loop(), then the next turn of the loop
SpinLoop(t) ==
    /\ setters[t].pc = "spin"
    /\ setters' = [setters EXCEPT ![t].pc = "cas"]
    /\ UNCHANGED <<healthy, pipeline, requests, health>>
    /\ UNCHANGED eventvars /\ UNCHANGED sinkvars

\* set_healthy has returned; the thread may call it again
Returned(t) ==
    /\ setters[t].pc = "returned"
    /\ setters' = [setters EXCEPT ![t] = NoSetter]
    /\ UNCHANGED <<healthy, pipeline, requests, health>>
    /\ UNCHANGED eventvars /\ UNCHANGED sinkvars

\* health_check
HealthCheck ==
    /\ health' = health_check(healthy)
    /\ UNCHANGED <<healthy, pipeline, requests, setters>>
    /\ UNCHANGED eventvars /\ UNCHANGED sinkvars

NextSource ==
    \/ \E r \in Requests : PushEvents(r)
    \/ \E r \in Requests : PushEventsSent(r)
    \/ PipelineRecv
    \/ PipelineClose
    \/ \E t \in Setters : SetHealthy(t)
    \/ \E t \in Setters : CasOk(t)
    \/ \E t \in Setters : CasErr(t)
    \/ \E t \in Setters : SpinLoop(t)
    \/ \E t \in Setters : Returned(t)
    \/ HealthCheck

SpecSource == InitSource /\ [][NextSource]_vars

\* A thread inside set_healthy keeps running, and a compare_exchange_weak that
\* could succeed does not fail spuriously for ever.
SourceFairness ==
    \A t \in Setters :
        /\ WF_vars(CasOk(t) \/ CasErr(t) \/ SpinLoop(t))
        /\ SF_vars(CasOk(t))

SpecSourceFair == InitSource /\ [][NextSource]_vars /\ SourceFairness

----------------------------------------------------------------------------
(* The gRPC sink: one Service::call on a batch, healthcheck, get_authority, *)
(* and the retry logic applied to the error that came out                  *)

InitSink == NoEvent /\ SourceInit /\ SinkInit

Batches == {[i \in 1 .. n |-> i] : n \in 0 .. MaxBatch}

\* Service::call(requests): one future per request, all handed to join_all
SinkCall ==
    /\ outcome.kind = "idle"
    /\ \E b \in Batches :
          /\ batch' = b
          /\ pushes' = [i \in DOMAIN b |-> NoPush]
    /\ outcome' = [kind |-> "pending", error |-> NoError]
    /\ UNCHANGED <<error, retriable>>
    /\ UNCHANGED eventvars /\ UNCHANGED sourcevars

\* the i-th future is polled: client.push_events(request) goes out
SinkPush(i) ==
    /\ outcome.kind = "pending"
    /\ i \in DOMAIN pushes
    /\ pushes[i].result = "none"
    /\ pushes' = [pushes EXCEPT ![i] = [issued |-> @.issued + 1, result |-> "pending"]]
    /\ UNCHANGED <<batch, outcome, error, retriable>>
    /\ UNCHANGED eventvars /\ UNCHANGED sourcevars

\* the i-th push_events comes back, Ok or with a Status
SinkResponse(i) ==
    /\ outcome.kind = "pending"
    /\ i \in DOMAIN pushes
    /\ pushes[i].result = "pending"
    /\ \E res \in {"Ok"} \cup Codes :
          pushes' = [pushes EXCEPT ![i].result = res]
    /\ UNCHANGED <<batch, outcome, error, retriable>>
    /\ UNCHANGED eventvars /\ UNCHANGED sourcevars

\* join_all is ready and its results are collected
SinkResolve ==
    /\ outcome.kind = "pending"
    /\ join_all_ready(pushes)
    /\ outcome' = collect([i \in DOMAIN pushes |-> pushes[i].result])
    /\ error' = IF outcome'.kind = "err" THEN outcome'.error ELSE error
    /\ UNCHANGED <<batch, pushes, retriable>>
    /\ UNCHANGED eventvars /\ UNCHANGED sourcevars

\* healthcheck(client), run when the sink is built
SinkHealthcheck ==
    /\ outcome.kind = "idle"
    /\ \E response \in HealthResponses :
          /\ healthcheck(response) # NoError
          /\ error' = healthcheck(response)
    /\ UNCHANGED <<batch, pushes, outcome, retriable>>
    /\ UNCHANGED eventvars /\ UNCHANGED sourcevars

\* get_authority(url), run when the sink is built
SinkGetAuthority ==
    /\ outcome.kind = "idle"
    /\ \E url \in Urls :
          /\ get_authority(url) # NoError
          /\ error' = get_authority(url)
    /\ UNCHANGED <<batch, pushes, outcome, retriable>>
    /\ UNCHANGED eventvars /\ UNCHANGED sourcevars

\* the retry layer asks about the error it was given
SinkIsRetriable ==
    /\ error # NoError
    /\ retriable' = [of |-> error, value |-> is_retriable_error(error)]
    /\ UNCHANGED <<batch, pushes, outcome, error>>
    /\ UNCHANGED eventvars /\ UNCHANGED sourcevars

NextSink ==
    \/ SinkCall
    \/ \E i \in 1 .. MaxBatch : SinkPush(i)
    \/ \E i \in 1 .. MaxBatch : SinkResponse(i)
    \/ SinkResolve
    \/ SinkHealthcheck
    \/ SinkGetAuthority
    \/ SinkIsRetriable

SpecSink == InitSink /\ [][NextSink]_vars

----------------------------------------------------------------------------
(* Properties *)

IsLogTarget == phase # "event" /\ target.variant = "Log" /\ target.inner.tag = "Event"
IsMetricTarget == phase # "event" /\ target.variant = "Metric"
LogFields(t) == t.inner.log.fields
LogMetadata(t) == t.inner.log.metadata

\* C1: after any sequence of constructors, LogEvent calls and log target calls
\* (root insert and root remove included) the record's fields is the Map
\* variant, and no unreachable! branch of as_map/as_map_mut was hit.
C1_FieldsAlwaysMap ==
    /\ ~panicked
    /\ event.variant = "Log" => event.fields.kind = "map"
    /\ IsLogTarget => LogFields(target).kind = "map"
    /\ \A i \in DOMAIN out : out[i].variant = "Log" => out[i].fields.kind = "map"

\* a root remove acted on a record with fields, after an earlier call
C1_Witness ==
    /\ IsLogTarget /\ last.op = "remove" /\ is_root(last.path) /\ steps = MaxOps
    /\ LogFields(prev) # Map(EmptyMap)
    /\ LogFields(target) = Map(EmptyMap)

C3_RootInsertMapReplaces ==
    (IsLogTarget /\ last.op = "insert" /\ is_root(last.path) /\ last.value.kind = "map")
        => /\ last.res.ok
           /\ VrlTarget_get(target, RootPath) = Ok(last.value)
           /\ \A k \in DOMAIN LogFields(prev).v \ DOMAIN last.value.v :
                 k \notin DOMAIN LogFields(target).v

C3_Witness ==
    /\ IsLogTarget /\ last.op = "insert" /\ is_root(last.path)
    /\ last.value = Map([b |-> Integer(1)])
    /\ "a" \in DOMAIN LogFields(prev).v
    /\ LogFields(target) = Map([b |-> Integer(1)])

\* C4: for a target built by VrlTarget::new from a Log event, assigning an
\* array of n elements to the root and then calling into_events yields exactly
\* n Events in array order, the i-th holding element i under the message key
\* and carrying the original record's metadata.
C4_RootArrayFansOut ==
    (phase = "done" /\ event.variant = "Log"
        /\ last.op = "insert" /\ is_root(last.path) /\ last.value.kind = "array")
        => /\ Len(out) = Len(last.value.v)
           /\ \A i \in DOMAIN out :
                 out[i] = LogEvent_insert(new_with_metadata(event.metadata), message_key,
                                          last.value.v[i])

\* C5: remove(path, compact) at a non-root path of a log target deletes the
\* addressed leaf; with compact = true no ancestor map on the path is left
\* empty, with compact = false the ancestors stay in place.
C5_RemoveCompacts ==
    (IsLogTarget /\ last.op = "remove" /\ ~is_root(last.path)
        /\ last.res.ok /\ last.res.val # None)
        => /\ VrlTarget_get(target, last.path) = Ok(None)
           /\ \A n \in 1..(Len(last.path) - 1) :
                 LET ancestor == ValGet(LogFields(target), SubSeq(last.path, 1, n))
                 IN IF last.compact THEN ancestor # Map(EmptyMap) ELSE ancestor # None

\* C6: an insert at a non-root path of a log target succeeds, makes every
\* intermediate segment a map, keeps every sibling key along the path, and
\* get(path) returns the inserted value; a.b.c = 1 into {a: {d: 2}} gives
\* {a: {d: 2, b: {c: 1}}}.
C6_InsertAutoVivifies ==
    (IsLogTarget /\ last.op = "insert" /\ ~is_root(last.path))
        => LET before == LogFields(prev)
               after == LogFields(target)
               path == last.path
           IN /\ last.res.ok
              /\ VrlTarget_get(target, path) = Ok(last.value)
              /\ \A n \in 1..(Len(path) - 1) : ValGet(after, SubSeq(path, 1, n)).kind = "map"
              /\ \A n \in 0..(Len(path) - 1) :
                    LET b == ValGet(before, SubSeq(path, 1, n))
                        a == ValGet(after, SubSeq(path, 1, n))
                    IN b.kind = "map" =>
                          \A k \in DOMAIN b.v \ {path[n + 1].v} :
                              k \in DOMAIN a.v /\ a.v[k] = b.v[k]
              /\ (before = Map([a |-> Map([d |-> Integer(2)])])
                    /\ path = P3("a", "b", "c") /\ last.value = Integer(1))
                    => after = Map([a |-> Map([d |-> Integer(2),
                                               b |-> Map([c |-> Integer(1)])])])

C6_Witness ==
    /\ IsLogTarget /\ last.op = "insert" /\ last.path = P3("a", "b", "c")
    /\ LogFields(prev) = Map([a |-> Map([d |-> Integer(2)])])
    /\ LogFields(target) = Map([a |-> Map([d |-> Integer(2), b |-> Map([c |-> Integer(1)])])])

\* the second of two successive removes of one path, the first of which did not fail
SecondRemove ==
    /\ phase # "event"
    /\ last.op = "remove" /\ last2.op = "remove" /\ last2.path = last.path /\ last2.ok

\* C7 as stated: the second removal of the same path (a log record path, or a
\* removable Metric path) does not fail, reports nothing found and leaves the
\* state unchanged.
C7_SecondRemoveFindsNothing ==
    SecondRemove => last.res = Ok(None) /\ target = prev

\* C7 as amended: the second removal does not fail and leaves the state
\* unchanged; it reports nothing found, except at the root of a log record,
\* where it returns an empty map.
C7_SecondRemoveChangesNothing ==
    SecondRemove
        => /\ last.res.ok
           /\ target = prev
           /\ IF IsLogTarget /\ is_root(last.path)
              THEN last.res.val = Map(EmptyMap)
              ELSE last.res.val = None

\* a leaf that the first remove found, removed a second time
C7_Witness ==
    /\ SecondRemove /\ IsLogTarget /\ last.path = P2("a", "d")
    /\ last.res = Ok(None)
    /\ LogFields(target) = Map([a |-> Map(EmptyMap)])

Names(fields) == {fields[i] : i \in DOMAIN fields}

\* C8: LogEvent::merge(incoming, allowed_fields) value-merges each allowed
\* field present in incoming into the current field (or inserts it when the
\* current record lacks it), keeps every other field of the current record,
\* brings in no field of incoming outside allowed_fields, and merges the
\* metadata whatever the list says.
C8_MergeOnlyAllowedFields ==
    last.op = "LogEvent::merge"
        => LET cur == prev.fields.v
               inc == last.incoming.fields.v
               res == event.fields.v
               allowed == Names(last.fields)
           IN /\ \A f \in allowed \cap DOMAIN inc :
                    /\ f \in DOMAIN res
                    /\ res[f] = IF f \notin DOMAIN cur THEN inc[f]
                                ELSE IF cur[f].kind = "bytes" /\ inc[f].kind = "bytes"
                                     THEN Bytes(cur[f].v \o inc[f].v)
                                     ELSE inc[f]
              /\ \A k \in DOMAIN cur :
                    (k \notin allowed \/ k \notin DOMAIN inc) => k \in DOMAIN res /\ res[k] = cur[k]
              /\ DOMAIN res \subseteq DOMAIN cur \cup (allowed \cap DOMAIN inc)
              /\ event.metadata = prev.metadata \cup last.incoming.metadata

\* "a" is concatenated, "b" of incoming is left out, the metadata is merged
C8_Witness ==
    /\ last.op = "LogEvent::merge" /\ last.fields = <<"a">>
    /\ "b" \in DOMAIN last.incoming.fields.v
    /\ prev.fields = Map([a |-> Bytes("x")])
    /\ event.fields = Map([a |-> Bytes("xy")])
    /\ prev.metadata = {1} /\ event.metadata = {1, 2}

\* C9: Value merge yields current followed by incoming when both are byte
\* strings, and the incoming value for every other combination of kinds.
C9_ValueMergeLaw ==
    last.op = "Value::merge"
        => /\ IF prev.kind = "bytes" /\ last.value.kind = "bytes"
              THEN event = Bytes(prev.v \o last.value.v)
              ELSE event = last.value
           /\ (prev = Bytes("hello ") /\ last.value = Bytes("world")) => event = Bytes("hello world")
           /\ (prev = Bool(TRUE) /\ last.value = Bool(FALSE)) => event = Bool(FALSE)
           /\ (prev = Bytes("my_val") /\ last.value = Bool(TRUE)) => event = Bool(TRUE)
           /\ (prev = Bool(TRUE) /\ last.value = Bytes("my_val")) => event = Bytes("my_val")
           /\ (prev = Integer(1) /\ last.value = Integer(2)) => event = Integer(2)

C9_Witness ==
    /\ last.op = "Value::merge" /\ steps = 2
    /\ prev = Bytes("hello world") /\ last.value = Bool(TRUE) /\ event = Bool(TRUE)

MetricReadable(path) ==
    \/ Len(path) = 1 /\ path[1].v \in {"name", "namespace", "timestamp", "kind", "tags", "type"}
    \/ Len(path) = 2 /\ path[1].v = "tags"
MetricWritable(path) ==
    \/ Len(path) = 1 /\ path[1].v \in {"name", "namespace", "timestamp", "kind", "tags"}
    \/ Len(path) = 2 /\ path[1].v = "tags"

\* C10: on a Metric target, get of a path outside {name, namespace, timestamp,
\* kind, tags, tags.<field>, type} fails with InvalidPath listing the readable
\* set; insert or remove of a path outside the same set without type fails
\* with InvalidPath listing the writable set; the Metric is unchanged.
C10_MetricInvalidPaths ==
    (IsMetricTarget /\ last.op \in {"get", "insert", "remove"} /\ ~is_root(last.path))
        => /\ (last.op = "get" /\ ~MetricReadable(last.path))
                 => /\ last.res = Err("invalid path " \o path_to_string(last.path)
                           \o ": expected one of .name, .namespace, .timestamp, .kind, .tags, .type")
                    /\ target = prev
           /\ (last.op # "get" /\ ~MetricWritable(last.path))
                 => /\ last.res = Err("invalid path " \o path_to_string(last.path)
                           \o ": expected one of .name, .namespace, .timestamp, .kind, .tags")
                    /\ target = prev

\* a read below an existing tag
C10_Witness ==
    /\ IsMetricTarget /\ last.op = "get" /\ last.path = P3("tags", "t1", "flork")
    /\ tag_value(target.inner, "t1") # None
    /\ ~last.res.ok

\* C11: insert and remove at the root path of a Metric target return an
\* error, whatever the value or the compact flag, and leave every field of the
\* Metric unchanged.
C11_MetricRootRejected ==
    (IsMetricTarget /\ last.op \in {"insert", "remove"} /\ is_root(last.path))
        => ~last.res.ok /\ target = prev

\* a compacting root remove on a Metric that has every optional field set
C11_Witness ==
    /\ IsMetricTarget /\ last.op = "remove" /\ is_root(last.path) /\ last.compact
    /\ ~last.res.ok
    /\ target.inner.namespace # None /\ target.inner.timestamp # None /\ target.inner.tags # None

\* C12: insert at kind of a Metric target succeeds exactly when the value is
\* the string "absolute" or "incremental" and then sets kind to the matching
\* variant, every other field staying as it was; any other value returns an
\* error and leaves the Metric unchanged.
C12_KindInsert ==
    (IsMetricTarget /\ last.op = "insert" /\ last.path = P1("kind"))
        => IF last.value \in {Bytes("absolute"), Bytes("incremental")}
           THEN /\ last.res.ok
                /\ target.inner = [prev.inner EXCEPT !.kind = last.value.v]
           ELSE ~last.res.ok /\ target = prev

\* an absolute Metric made incremental
C12_Witness ==
    /\ IsMetricTarget /\ last.op = "insert" /\ last.path = P1("kind")
    /\ last.value = Bytes("incremental") /\ last.res.ok
    /\ prev.inner.kind = "absolute" /\ target.inner.kind = "incremental"

\* the names a Metric of the model can carry
MetricNames ==
    {m.name : m \in InitMetrics}
    \cup {from_utf8_lossy(x.v) : x \in {y \in MetricValues : y.kind = "bytes"}}

\* C13: remove at kind or at name of a Metric target removes nothing: it
\* returns an InvalidPath error and the Metric is as it was; in every state a
\* Metric has a name and a kind.
C13_NameKindNotRemovable ==
    IsMetricTarget
        => /\ target.inner.name \in MetricNames
           /\ target.inner.kind \in {"absolute", "incremental"}
           /\ (last.op = "remove" /\ last.path \in {P1("kind"), P1("name")})
                 => /\ last.res = Err(InvalidPath(last.path, VALID_METRIC_PATHS_SET))
                    /\ target = prev

\* remove at name after the name was set
C13_Witness ==
    /\ IsMetricTarget /\ last.op = "remove" /\ last.path = P1("name")
    /\ ~last.res.ok /\ target.inner.name = "x"

TagsOf(metric) == IF metric.tags = None THEN EmptyMap ELSE metric.tags.v

\* C14: an insert on a Metric target that returns an error leaves the Metric
\* exactly as it was before the call, an insert at tags whose object holds an
\* entry that is not a string included.
C14_FailedInsertChangesNothing ==
    (IsMetricTarget /\ last.op = "insert" /\ ~last.res.ok) => target = prev

MetricRoundTripPaths ==
    {P1("name"), P1("namespace"), P1("timestamp"), P1("kind"), P2("tags", "t1"), P2("tags", "t2")}
MetricRemovablePaths ==
    {P1("namespace"), P1("timestamp"), P2("tags", "t1"), P2("tags", "t2")}

\* a removable path: remove returns what get returned before it, get after it
\* returns nothing
MetricRemoveTakes ==
    (IsMetricTarget /\ last.op = "remove" /\ last.path \in MetricRemovablePaths)
        => /\ last.res = VrlTarget_get(prev, last.path)
           /\ VrlTarget_get(target, last.path) = Ok(None)

\* C16 as stated: on a Metric target, get(path) right after a successful
\* insert(path, v) at name, namespace, timestamp, kind or tags.<field> returns
\* v; remove at namespace, timestamp or tags.<field> returns the value stored
\* and get(path) right after returns nothing.
C16_GetReturnsInserted ==
    /\ (IsMetricTarget /\ last.op = "insert" /\ last.path \in MetricRoundTripPaths
            /\ last.res.ok)
          => VrlTarget_get(target, last.path) = Ok(last.value)
    /\ MetricRemoveTakes

\* C16 as amended: get(path) right after a successful insert(path, v) returns
\* v for timestamp and kind, and for name, namespace and tags.<field> the
\* string v with every invalid UTF-8 sequence replaced by U+FFFD (v itself
\* when v is valid UTF-8); the removals as stated.
C16_GetReturnsInsertedLossy ==
    /\ (IsMetricTarget /\ last.op = "insert" /\ last.path \in MetricRoundTripPaths
            /\ last.res.ok)
          => VrlTarget_get(target, last.path) =
                Ok(IF last.path \in {P1("timestamp"), P1("kind")} THEN last.value
                   ELSE Bytes(from_utf8_lossy(last.value.v)))
    /\ MetricRemoveTakes

\* a namespace that an insert set is removed
C16_Witness ==
    /\ IsMetricTarget /\ last.op = "remove" /\ last.path = P1("namespace") /\ steps = 2
    /\ last.res = Ok(Bytes("x"))
    /\ prev.inner.namespace = Some("x") /\ target.inner.namespace = None

C18_NoPanic ==
    /\ ~panicked
    /\ phase # "aborted"
    /\ last.res.val # Aborted

HasIndex(lookup) == \E i \in DOMAIN lookup : lookup[i].kind = "index"

\* C19: LogEvent::entry called with a lookup that contains an array-index
\* segment at any position returns an error outcome and leaves the record
\* unchanged.
C19_EntryIndexFails ==
    (last.op = "LogEvent::entry" /\ HasIndex(last.path))
        => /\ ~last.res.ok
           /\ last.res.val # Aborted
           /\ event = prev

\* what the last call, a serialization, would have returned had the record
\* carried the metadata m
SerializedWith(m) ==
    IF last.op = "LogEvent::serialize"
    THEN LogEvent_serialize([event EXCEPT !.metadata = m])
    ELSE LogEvent_try_into_json([event EXCEPT !.metadata = m])

\* C20: the serialized form of a LogEvent (Serialize, TryInto<serde_json::Value>)
\* is an object with exactly the top-level keys of the field Map, and a
\* LogEvent with the same fields and any other metadata serializes to the
\* same output.
C20_SerializedFieldsOnly ==
    last.op \in {"LogEvent::serialize", "LogEvent::try_into"}
        => /\ last.res.ok
           /\ last.res.val.kind = "jobject"
           /\ DOMAIN last.res.val.v = DOMAIN event.fields.v
           /\ \A m \in SUBSET MetadataIds : SerializedWith(m) = last.res

\* a record with metadata and two fields is serialized
C20_Witness ==
    /\ last.op = "LogEvent::serialize" /\ event.metadata = {1, 2}
    /\ DOMAIN last.res.val.v = {"a", "b"}

\* C21: decoding a JSON object (nested maps, arrays, scalars) into a LogEvent
\* with TryFrom and re-encoding it with TryInto yields the original JSON
\* value; decoding a JSON value that is not an object returns an error and
\* no LogEvent.
C21_JsonRoundTrip ==
    last.op = "LogEvent::try_from"
        => IF last.value.kind = "jobject"
           THEN /\ last.res.ok
                /\ LogEvent_try_into_json(event) = Ok(last.value)
           ELSE /\ ~last.res.ok /\ last.res.val # Aborted
                /\ event = prev

\* an object with an array, a nested object and scalars was decoded
C21_Witness ==
    /\ last.op = "LogEvent::try_from" /\ last.res.ok
    /\ last.value = JObject([a |-> JArray(<<JNumber(1), JNull>>),
                             b |-> JObject([c |-> JString("x")])])
    /\ event.fields = Map([a |-> Array(<<Integer(1), Null>>), b |-> Map([c |-> Bytes("x")])])

\* C22: remove at the root path of a log record target never errors: it
\* returns the whole field map as it was before the call and leaves the
\* record with an empty field map, so get(root) afterwards returns an empty
\* map and a second root remove returns an empty map.
C22_RootRemoveEmpties ==
    (IsLogTarget /\ last.op = "remove" /\ is_root(last.path))
        => /\ last.res = Ok(LogFields(prev))
           /\ LogFields(target) = Map(EmptyMap)
           /\ VrlTarget_get(target, RootPath) = Ok(Map(EmptyMap))
           /\ \A compact \in BOOLEAN :
                 VrlTarget_remove(target, RootPath, compact).res = Ok(Map(EmptyMap))

\* a record with a nested map and a compacting root remove
C22_Witness ==
    /\ IsLogTarget /\ last.op = "remove" /\ is_root(last.path) /\ last.compact
    /\ last.res = Ok(Map([a |-> Map([b |-> Map([c |-> Integer(1)])])]))
    /\ LogFields(target) = Map(EmptyMap)

\* C23: get at the root path of a Metric target never errors and returns a
\* map that holds name, kind and type, and namespace, timestamp and tags
\* exactly when the Metric has them set, each with the Metric's current
\* value; it does not change the Metric.
C23_MetricRootGet ==
    (IsMetricTarget /\ last.op = "get" /\ is_root(last.path))
        => LET m == target.inner
               got == last.res.val
           IN /\ last.res.ok /\ got.kind = "map"
              /\ target = prev
              /\ DOMAIN got.v = {"name", "kind", "type"}
                                  \cup (IF m.namespace # None THEN {"namespace"} ELSE {})
                                  \cup (IF m.timestamp # None THEN {"timestamp"} ELSE {})
                                  \cup (IF m.tags # None THEN {"tags"} ELSE {})
              /\ got.v["name"] = Bytes(m.name)
              /\ got.v["kind"] = Bytes(m.kind)
              /\ got.v["type"] = Bytes(m.value)
              /\ m.namespace # None => got.v["namespace"] = Bytes(m.namespace.v)
              /\ m.timestamp # None => got.v["timestamp"] = Ts(m.timestamp.v)
              /\ m.tags # None =>
                    got.v["tags"] = Map([k \in DOMAIN m.tags.v |-> Bytes(m.tags.v[k])])

\* the Metric of the test metric_all_fields, read after its kind was changed
C23_Witness ==
    /\ IsMetricTarget /\ last.op = "get" /\ is_root(last.path) /\ steps = 2
    /\ last.res = Ok(Map([name |-> Bytes("zub"), namespace |-> Bytes("zoob"),
                           timestamp |-> Ts(1), kind |-> Bytes("incremental"),
                           tags |-> Map([t1 |-> Bytes("tog")]), type |-> Bytes("counter")]))

\* C24: LogEvent::entry(lookup) followed by or_insert_with(fallback), for a
\* lookup of field segments: when the path already holds a value (even Null)
\* the record is unchanged; when only the last segment is missing and every
\* earlier segment is an existing map, the fallback is stored at exactly that
\* path and nothing else changes; otherwise entry returns an error and the
\* record is unchanged.
C24_EntryNeverOverwrites ==
    (last.op = "LogEvent::entry.or_insert_with" /\ last.path # << >> /\ ~HasIndex(last.path))
        => LET before == prev.fields
               path == last.path
               held == ValGet(before, path)
               parent == ValGet(before, SubSeq(path, 1, Len(path) - 1))
           IN CASE held # None -> last.res.ok /\ event = prev
                [] parent # None /\ parent.kind = "map" ->
                      /\ last.res.ok
                      /\ ValGet(event.fields, path) = last.value
                      /\ ValRemove(event.fields, path, FALSE).val = before
                      /\ event.metadata = prev.metadata
                [] OTHER -> ~last.res.ok /\ last.res.val # Aborted /\ event = prev

\* the fallback is stored next to a sibling in an existing map
C24_Witness ==
    /\ last.op = "LogEvent::entry.or_insert_with" /\ last.path = P2("a", "b")
    /\ prev.fields = Map([a |-> Map([d |-> Integer(2)])])
    /\ event.fields = Map([a |-> Map([d |-> Integer(2), b |-> Bytes("x")])])

TargetOps == {"insert", "get", "remove"}

\* C29: wrapping an Event with VrlTarget::new and calling into_events with no
\* call on the target in between yields exactly one Event equal to the
\* original: same variant, same field map (a top-level key that contains a
\* dot stays one flat key) and same metadata. Holds of vrl_target/mod.rs
\* (Spec); the older adapter of SpecAdapters rebuilds the record key by key.
C29_UntouchedRoundTrip ==
    (phase = "done" /\ last.op \notin TargetOps) => out = <<event>>

\* C30: a successful root insert of a Map on a log record target leaves the
\* record with the default metadata, not the metadata it carried before the
\* call; every non-root insert and every remove leaves the metadata
\* unchanged.
C30_RootInsertResetsMetadata ==
    IsLogTarget
        => /\ (last.op = "insert" /\ is_root(last.path) /\ last.res.ok)
                 => LogMetadata(target) = DefaultMetadata
           /\ ((last.op = "insert" /\ ~is_root(last.path)) \/ last.op = "remove")
                 => LogMetadata(target) = LogMetadata(prev)

\* a record that carried metadata loses it to a root insert
C30_Witness ==
    /\ IsLogTarget /\ last.op = "insert" /\ is_root(last.path) /\ last.res.ok
    /\ LogMetadata(prev) = {1, 2}
    /\ LogMetadata(target) = DefaultMetadata

\* C25: push_events acknowledges only what the pipeline accepted: a request
\* without a message returns invalid_argument and sends nothing, a failed send
\* returns unavailable and no acknowledgement, and every acknowledged request
\* put exactly one event into the pipeline.
C25_AckOnlyAfterAccepted ==
    \A r \in Requests :
        LET q == requests[r] IN
        /\ q.sent <= 1
        /\ q.response.kind = "ok" => (q.sent = 1 /\ q.message # None)
        /\ (q.pc = "done" /\ q.message = None)
              => (q.response.code = "InvalidArgument" /\ q.sent = 0)
        /\ q.response.code = "InvalidArgument" => q.message = None
        /\ q.response.code = "Unavailable" => (q.sent = 0 /\ q.message # None)
        /\ q.sent = 1 => q.response.kind = "ok"

\* one request acknowledged, the other refused by a closed pipeline
C25_Witness ==
    \E r1, r2 \in Requests :
        /\ requests[r1].response = EventAck("success") /\ requests[r1].sent = 1
        /\ requests[r2].response.code = "Unavailable" /\ requests[r2].sent = 0

\* C26: when the future of Service::call resolves, exactly one push_events
\* was issued for every request of the batch; it resolves Ok exactly when all
\* of them succeeded, and otherwise to Error::Request with the status of the
\* first failed request in batch order, whatever the other requests did.
C26_BatchOutcome ==
    /\ \A i \in DOMAIN pushes : pushes[i].issued <= 1
    /\ outcome.kind \in {"ok", "err"} =>
          /\ DOMAIN pushes = DOMAIN batch
          /\ \A i \in DOMAIN batch : pushes[i].issued = 1
          /\ outcome.kind = "ok" <=> \A i \in DOMAIN batch : pushes[i].result = "Ok"
          /\ outcome.kind = "err" =>
                \E i \in DOMAIN batch :
                    /\ pushes[i].result # "Ok"
                    /\ \A j \in 1 .. (i - 1) : pushes[j].result = "Ok"
                    /\ outcome.error = ErrorRequest(pushes[i].result)

\* the first request was delivered, the second and the third failed
\* differently: the second one's status is reported
C26_Witness ==
    /\ outcome.kind = "err"
    /\ Len(batch) = 3
    /\ pushes[1].result = "Ok"
    /\ pushes[2].result = "Unavailable"
    /\ pushes[3].result = "Unknown"
    /\ outcome.error = ErrorRequest("Unavailable")

\* C27: a thread that entered set_healthy(h) returns from it, whatever the
\* flag was before.
C27_SetHealthyTerminates ==
    \A t \in Setters : (setters[t].pc = "cas") ~> (setters[t].pc = "returned")

\* C28: is_retriable_error is false exactly for Error::Request with code
\* Unknown, and true for every other error.
C28_RetriableUnlessUnknown ==
    retriable.of # NoError
        => (retriable.value = FALSE
              <=> (retriable.of.kind = "Request" /\ retriable.of.code = "Unknown"))

\* the error of a batch whose first failure had code Unknown is not retried
C28_Witness ==
    /\ outcome.kind = "err"
    /\ retriable.of = ErrorRequest("Unknown")
    /\ retriable.value = FALSE

====
